---- MODULE Spec2Model ----
(***************************************************************************)
(* Model of the workout tracker bot (src/src/main.rs, src/src/context.rs). *)
(*                                                                         *)
(* One Registry (Contexts.txs) maps a chat id to the Sender of a bounded   *)
(* mpsc channel.  Each channel has one consumer task (handle_commands)     *)
(* owning a ContextData.  Two producer tasks run for the process lifetime: *)
(* get_all_updates (IngestLoop) and send_daily_messages (Scheduler).       *)
(* Channels are heap objects: the registry, the scheduler's snapshot and    *)
(* the spawned sender tasks hold channel numbers, and the number of a      *)
(* channel is free again once its actor has returned and nothing refers to *)
(* it any more.                                                            *)
(***************************************************************************)
EXTENDS Integers, Sequences, FiniteSets, Bags, TLC

\* ---------------------------------------------------------------- bounds
\* number of channels that exist at the same time
MaxChans == 2
\* number of numeric messages (progress reports) the platform delivers
MaxReports == 1
\* spawned sender tasks that have not completed yet
MaxInFlight == 1
\* capacity of a command queue; the program uses 2048 (main.rs:178), the
\* model a small capacity so that a full queue is reachable
ChannelCapacity == 2

\* number of AddPushups commands sent to the actors of SpecActor
MaxAdds == 3

\* ---------------------------------------------------------------- inputs
Chats == {1, 2}
Users == {"alice", "bob"}
NoUser == "-"
NoText == "<none>"
NoChat == 0

\* text.parse::<usize>(): the decimal value, or an error (-1) for anything
\* that is not a sequence of digits
ParseErr == -1
parse_usize(text) ==
    CASE text = "50" -> 50
      [] text = "60" -> 60
      [] OTHER -> ParseErr

\* An update as get_all_updates sees it: which of message / edited_message
\* is present, the chat, the text and the sender's username.  Progress is
\* reported in chat 1.
Updates ==
    [message : {TRUE}, chat : Chats, text : {"/start", "hi", NoText}, from : {"alice"}]
      \cup [message : {TRUE}, chat : {1}, text : {"60"}, from : {"alice", NoUser}]
      \cup [message : {FALSE}, chat : Chats \cup {NoChat}, text : {"50"}, from : {"alice"}]

Counts == {50, 60}

Chans == 1..MaxChans
NoChan == 0

VARIABLES
    txs,          \* Contexts.txs: chat id -> channel (NoChan: no entry)
    chanChat,     \* channel -> chat id its actor was created for
    queue,        \* channel -> buffered commands, oldest first
    actor,        \* channel -> handle_commands task: "none" | "running"
    ctx,          \* channel -> ContextData owned by the actor
    out,          \* the platform calls of the step just taken, the channel
                  \* of the actor that made them and, when the actor returned
                  \* in that step, the ContextData and the buffered commands
                  \* it dropped (NoOut: the step was not the handling of a
                  \* command)
    handled,      \* channel -> number of commands the actor has handled
    applied,      \* channel -> bag of AddPushups commands the actor has applied
    pinned,       \* channel -> ids of the messages of its chat that the
                  \* platform shows as pinned
    pending,      \* bag of spawned sender tasks (main.rs:113) not yet completed
    sched_pc,     \* Scheduler position: "wake" | "iter" | "send"
    sched_txs,    \* Scheduler's snapshot of txs (main.rs:35), the entries
                  \* the loop has not passed yet
    sched_todo,   \* chats of the snapshot not iterated yet
    sched_cur,    \* chat whose send the Scheduler is awaiting
    sched_out,    \* what the Scheduler step just taken did with a handle:
                  \* "removed" | "sent" | "failed" (NoSched: no such step)
    ing_pc,       \* IngestLoop task: "polling" | "panicked"
    ing_out,      \* what the IngestLoop step just taken did with its update:
                  \* "skipped" | "started" | "start_noop" | "dropped" |
                  \* "spawned" | "panicked" (NoIngest: no such step)
    reports,      \* number of numeric messages received so far
    running       \* the process is alive (main has not unwound)

vars == <<txs, chanChat, queue, actor, ctx, out, handled, applied, pinned,
          pending, sched_pc, sched_txs, sched_todo, sched_cur, sched_out,
          ing_pc, ing_out, reports, running>>

chanVars == <<chanChat, queue, actor, ctx, handled, applied, pinned>>
schedVars == <<sched_pc, sched_txs, sched_todo, sched_cur>>
ingVars == <<ing_pc, reports>>

\* ------------------------------------------------------------ ContextData
EmptyMap == [u \in {} |-> 0]

\* HashMap::get(..).unwrap_or(&0)
Get(m, k) == IF k \in DOMAIN m THEN m[k] ELSE 0

Contains(s, x) == \E i \in 1..Len(s) : s[i] = x

NoMessage == 0

ContextData_new(chat_id) ==
    [ chat_id |-> chat_id,
      daily_message_id |-> NoMessage,
      cycle_increase |-> 10,
      cycle_length |-> 1,
      current_day |-> 0,
      progress |-> <<EmptyMap>>,
      duration |-> 3,
      repeats |-> 100,
      users |-> <<>> ]

\* progress is a Vec indexed from 0; the model's sequence is indexed from 1
Ledger(cd, day) == cd.progress[day + 1]

\* a variant that asks for more than the quota
is_user_done_strict(cd, username) ==
    Get(Ledger(cd, cd.current_day), username) > cd.repeats

is_user_done(cd, username) ==
    Get(Ledger(cd, cd.current_day), username) >= cd.repeats

\* a variant that is content with one user who is done
is_all_users_done_any(cd) ==
    \E i \in 1..Len(cd.users) : is_user_done(cd, cd.users[i])

is_all_users_done(cd) ==
    \A i \in 1..Len(cd.users) : is_user_done(cd, cd.users[i])

\* a variant that pushes the user onto the roster at every report
add_user_progress_dup(cd, username, count) ==
    LET m == Ledger(cd, cd.current_day)
        m2 == [k \in DOMAIN m \cup {username} |->
                 IF k = username THEN Get(m, username) + count ELSE m[k]]
    IN [cd EXCEPT !.users = Append(cd.users, username),
                  !.progress[cd.current_day + 1] = m2]

\* a variant that stores the reported count instead of adding it
add_user_progress_overwrite(cd, username, count) ==
    LET users2 == IF Contains(cd.users, username) THEN cd.users
                  ELSE Append(cd.users, username)
        m == Ledger(cd, cd.current_day)
        m2 == [k \in DOMAIN m \cup {username} |->
                 IF k = username THEN count ELSE m[k]]
    IN [cd EXCEPT !.users = users2, !.progress[cd.current_day + 1] = m2]

add_user_progress(cd, username, count) ==
    LET users2 == IF Contains(cd.users, username) THEN cd.users
                  ELSE Append(cd.users, username)
        m == Ledger(cd, cd.current_day)
        m2 == [k \in DOMAIN m \cup {username} |->
                 IF k = username THEN Get(m, username) + count ELSE m[k]]
    IN [cd EXCEPT !.users = users2, !.progress[cd.current_day + 1] = m2]

\* a variant that appends no ledger for the new day
init_next_day_nopush(cd) ==
    LET day == cd.current_day + 1
        ended == day # 1 /\ day % cd.cycle_length = 0
    IN [ data |-> [cd EXCEPT !.current_day = day,
                             !.repeats = IF ended THEN @ + cd.cycle_increase ELSE @],
         cycle_ended |-> ended ]

\* a variant that ends a cycle on day 1 as well
init_next_day_day1(cd) ==
    LET day == cd.current_day + 1
        ended == day % cd.cycle_length = 0
    IN [ data |-> [cd EXCEPT !.current_day = day,
                             !.progress = Append(@, EmptyMap),
                             !.repeats = IF ended THEN @ + cd.cycle_increase ELSE @],
         cycle_ended |-> ended ]

\* a variant that skips a day
init_next_day_twice(cd) ==
    LET day == cd.current_day + 2
        ended == day # 1 /\ day % cd.cycle_length = 0
    IN [ data |-> [cd EXCEPT !.current_day = day,
                             !.progress = Append(Append(@, EmptyMap), EmptyMap),
                             !.repeats = IF ended THEN @ + cd.cycle_increase ELSE @],
         cycle_ended |-> ended ]

\* returns the new state and the bool the method returns
init_next_day(cd) ==
    LET day == cd.current_day + 1
        ended == day # 1 /\ day % cd.cycle_length = 0
    IN [ data |-> [cd EXCEPT !.current_day = day,
                             !.progress = Append(@, EmptyMap),
                             !.repeats = IF ended THEN @ + cd.cycle_increase ELSE @],
         cycle_ended |-> ended ]

\* a variant that ends the workout one day later
is_workout_over_late(cd) == cd.current_day > cd.duration

is_workout_over(cd) == cd.current_day >= cd.duration

\* a variant that shows the day after current_day
generate_daily_message_plus1(cd) ==
    [ kind |-> "daily",
      lines |-> [i \in 1..Len(cd.users) |->
                   <<cd.users[i], Get(Ledger(cd, cd.current_day), cd.users[i])>>],
      day |-> cd.current_day + 1,
      duration |-> cd.duration,
      repeats |-> cd.repeats ]

generate_daily_message(cd) ==
    [ kind |-> "daily",
      lines |-> [i \in 1..Len(cd.users) |->
                   <<cd.users[i], Get(Ledger(cd, cd.current_day), cd.users[i])>>],
      day |-> cd.current_day,
      duration |-> cd.duration,
      repeats |-> cd.repeats ]

\* the loop over one day's ledger (context.rs:142-145): acc is
\* <<users_progress, total_progress>>
RECURSIVE FoldLedger(_, _, _)
FoldLedger(m, keys, acc) ==
    IF keys = {} THEN acc
    ELSE LET k == CHOOSE x \in keys : TRUE
             up == acc[1]
             up2 == [u \in DOMAIN up \cup {k} |->
                       IF u = k THEN Get(up, k) + m[k] ELSE up[u]]
         IN FoldLedger(m, keys \ {k}, <<up2, acc[2] + m[k]>>)

\* the loop over the day ledgers (context.rs:141-146)
RECURSIVE FoldDays(_, _, _)
FoldDays(progress, i, acc) ==
    IF i > Len(progress) THEN acc
    ELSE FoldDays(progress, i + 1,
                  FoldLedger(progress[i], DOMAIN progress[i], acc))

\* a variant that sums the ledger of the last day only
generate_final_message_lastday(cd) ==
    LET m == Ledger(cd, cd.current_day)
        acc == FoldLedger(m, DOMAIN m, <<EmptyMap, 0>>)
    IN [ kind |-> "final", days |-> cd.duration, total |-> acc[2], users |-> acc[1] ]

generate_final_message(cd) ==
    LET acc == FoldDays(cd.progress, 1, <<EmptyMap, 0>>)
    IN [ kind |-> "final", days |-> cd.duration, total |-> acc[2], users |-> acc[1] ]

generate_end_of_cycle_message(cd) ==
    [ kind |-> "cycle", old |-> cd.repeats - cd.cycle_increase, new |-> cd.repeats ]

UserDoneText == [kind |-> "user_done"]
AllDoneText == [kind |-> "all_done"]

\* A platform call and its outcome `ok`.  The calls are synchronous; a
\* failed call is printed and has no other effect on the program, except
\* that send_message returns None.
Call(op, arg, ok) == [op |-> op, arg |-> arg, ok |-> ok]

send_message(text, ok) == <<Call("send", text, ok)>>

pin_daily_message(cd, ok) ==
    IF cd.daily_message_id # NoMessage
    THEN <<Call("pin", cd.daily_message_id, ok)>> ELSE <<>>

\* a variant that makes no call
unpin_daily_message_none(cd, ok) == <<>>

unpin_daily_message(cd, ok) ==
    IF cd.daily_message_id # NoMessage
    THEN <<Call("unpin", cd.daily_message_id, ok)>> ELSE <<>>

\* a variant that edits the message of the current day
update_daily_message_today(cd, ok) ==
    IF cd.daily_message_id = NoMessage THEN <<>>
    ELSE <<Call("edit", [msg |-> cd.current_day,
                         text |-> generate_daily_message(cd)], ok)>>

\* Err("No daily message ID") without a platform call when there is no id
update_daily_message(cd, ok) ==
    IF cd.daily_message_id = NoMessage THEN <<>>
    ELSE <<Call("edit", [msg |-> cd.daily_message_id,
                         text |-> generate_daily_message(cd)], ok)>>

\* The platform's side of pin_chat_message and unpin_chat_message
\* (context.rs:194, context.rs:211): a successful pin adds the message to
\* the pinned messages of the chat, a successful unpin removes it.
RECURSIVE ApplyPins(_, _)
ApplyPins(P, calls) ==
    IF calls = <<>> THEN P
    ELSE LET c == Head(calls)
             P2 == IF c.op = "pin" /\ c.ok THEN P \cup {c.arg}
                   ELSE IF c.op = "unpin" /\ c.ok THEN P \ {c.arg}
                   ELSE P
         IN ApplyPins(P2, Tail(calls))

\* The platform gives every sent message a fresh id.  Only status messages
\* have their id stored, one per day, so the id of the status message sent
\* on day d is modelled as d.
MessageId(cd) == cd.current_day

NoContext == ContextData_new(NoChat)
NoOut == [h |-> NoChan, calls |-> <<>>, dropped |-> NoContext, pinned |-> {},
          lost |-> <<>>]
NoSched == [chat |-> NoChat, res |-> "none"]
NoIngest == [chat |-> NoChat, res |-> "none"]

\* ------------------------------------------------------------------ Init
Init ==
    /\ txs = [c \in Chats |-> NoChan]
    /\ chanChat = [h \in Chans |-> NoChat]
    /\ queue = [h \in Chans |-> <<>>]
    /\ actor = [h \in Chans |-> "none"]
    /\ ctx = [h \in Chans |-> NoContext]
    /\ out = NoOut
    /\ handled = [h \in Chans |-> 0]
    /\ applied = [h \in Chans |-> EmptyBag]
    /\ pinned = [h \in Chans |-> {}]
    /\ pending = EmptyBag
    /\ sched_pc = "wake"
    /\ sched_txs = [c \in Chats |-> NoChan]
    /\ sched_todo = {}
    /\ sched_cur = NoChat
    /\ sched_out = NoSched
    /\ ing_out = NoIngest
    /\ ing_pc = "polling"
    /\ reports = 0
    /\ running = TRUE

\* Sender::is_closed(): the receiver was closed (rx.close()) or dropped
is_closed(h) == actor[h] # "running"

\* channel numbers no task runs on and no Sender refers to
FreeChans ==
    {h \in Chans :
        /\ actor[h] = "none"
        /\ \A c \in Chats : txs[c] # h /\ sched_txs[c] # h
        /\ \A t \in BagToSet(pending) : t.h # h}

NewChan == CHOOSE h \in FreeChans : \A g \in FreeChans : h <= g

SendDailyMessageCmd == [cmd |-> "SendDailyMessage", username |-> NoUser, count |-> 0]
AddPushupsCmd(username, count) == [cmd |-> "AddPushups", username |-> username, count |-> count]

\* ------------------------------------------------------- handle_commands
\* ContextCommand::SendDailyMessage (main.rs:197-219).  r[1] is the outcome
\* of the final-summary or cycle-boundary send, r[2] of the daily status
\* send, r[3] of the first unpin and r[4] of the pin or the second unpin.
\* `out` keeps the calls and what the platform shows as pinned after them.
\* When the workout is over the handler closes the receiver and returns: the
\* task ends and its ContextData and its Receiver, with the commands still
\* buffered, are dropped.
handle_SendDailyMessage(h, r) ==
    /\ running
    /\ actor[h] = "running"
    /\ queue[h] # <<>>
    /\ Head(queue[h]).cmd = "SendDailyMessage"
    /\ LET cd == ctx[h]
           unpin == unpin_daily_message(cd, r[3])
       IN IF is_workout_over(cd)
          THEN /\ LET calls == unpin
                               \o send_message(generate_final_message(cd), r[1])
                               \o unpin_daily_message(cd, r[4])
                  IN out' = [h |-> h, dropped |-> cd, calls |-> calls,
                             pinned |-> ApplyPins(pinned[h], calls),
                             lost |-> Tail(queue[h])]
               /\ pinned' = [pinned EXCEPT ![h] = {}]
               /\ actor' = [actor EXCEPT ![h] = "none"]
               /\ ctx' = [ctx EXCEPT ![h] = NoContext]
               /\ chanChat' = [chanChat EXCEPT ![h] = NoChat]
               /\ queue' = [queue EXCEPT ![h] = <<>>]
               /\ handled' = [handled EXCEPT ![h] = 0]
               /\ applied' = [applied EXCEPT ![h] = EmptyBag]
          ELSE LET nd == init_next_day(cd)
                   cd1 == nd.data
                   cycle == IF nd.cycle_ended
                            THEN send_message(generate_end_of_cycle_message(cd1), r[1])
                            ELSE <<>>
                   daily == send_message(generate_daily_message(cd1), r[2])
                   cd2 == IF r[2]
                          THEN [cd1 EXCEPT !.daily_message_id = MessageId(cd1)]
                          ELSE cd1
                   pin == IF r[2] THEN pin_daily_message(cd2, r[4]) ELSE <<>>
                   calls == unpin \o cycle \o daily \o pin
               IN /\ out' = [h |-> h, dropped |-> NoContext, calls |-> calls,
                             pinned |-> ApplyPins(pinned[h], calls), lost |-> <<>>]
                  /\ pinned' = [pinned EXCEPT ![h] = ApplyPins(@, calls)]
                  /\ ctx' = [ctx EXCEPT ![h] = cd2]
                  /\ queue' = [queue EXCEPT ![h] = Tail(@)]
                  /\ handled' = [handled EXCEPT ![h] = @ + 1]
                  /\ UNCHANGED <<actor, chanChat, applied>>
    /\ sched_out' = NoSched
    /\ ing_out' = NoIngest
    /\ UNCHANGED <<txs, pending, running>>
    /\ UNCHANGED schedVars
    /\ UNCHANGED ingVars

\* a variant that takes the newest command of the queue
handle_AddPushups_last(h, r) ==
    /\ running
    /\ actor[h] = "running"
    /\ queue[h] # <<>>
    /\ queue[h][Len(queue[h])].cmd = "AddPushups"
    /\ LET c == queue[h][Len(queue[h])]
             cd1 == add_user_progress(ctx[h], c.username, c.count)
             edit == update_daily_message(cd1, r[3])
             done == IF is_user_done(cd1, c.username)
                     THEN send_message(UserDoneText, r[1]) ELSE <<>>
             all == IF is_all_users_done(cd1)
                    THEN send_message(AllDoneText, r[2]) ELSE <<>>
         IN /\ ctx' = [ctx EXCEPT ![h] = cd1]
            /\ out' = [h |-> h, dropped |-> NoContext, calls |-> edit \o done \o all,
                       pinned |-> pinned[h], lost |-> <<>>]
            /\ applied' = [applied EXCEPT ![h] = @ (+) SetToBag(
                   {[day |-> ctx[h].current_day, username |-> c.username,
                     count |-> c.count]})]
    /\ queue' = [queue EXCEPT ![h] = SubSeq(@, 1, Len(@) - 1)]
    /\ handled' = [handled EXCEPT ![h] = @ + 1]
    /\ sched_out' = NoSched
    /\ ing_out' = NoIngest
    /\ UNCHANGED <<txs, chanChat, actor, pinned, pending, running>>
    /\ UNCHANGED schedVars
    /\ UNCHANGED ingVars

\* a variant that keeps the addition only when the edit succeeded
handle_AddPushups_rollback(h, r) ==
    /\ running
    /\ actor[h] = "running"
    /\ queue[h] # <<>>
    /\ Head(queue[h]).cmd = "AddPushups"
    /\ LET c == Head(queue[h])
             cd1 == add_user_progress(ctx[h], c.username, c.count)
             edit == update_daily_message(cd1, r[3])
             cd2 == IF edit # <<>> /\ ~r[3] THEN ctx[h] ELSE cd1
             done == IF is_user_done(cd2, c.username)
                     THEN send_message(UserDoneText, r[1]) ELSE <<>>
             all == IF is_all_users_done(cd2)
                    THEN send_message(AllDoneText, r[2]) ELSE <<>>
         IN /\ ctx' = [ctx EXCEPT ![h] = cd2]
            /\ out' = [h |-> h, dropped |-> NoContext, calls |-> edit \o done \o all,
                       pinned |-> pinned[h], lost |-> <<>>]
            /\ applied' = [applied EXCEPT ![h] = @ (+) SetToBag(
                   {[day |-> ctx[h].current_day, username |-> c.username,
                     count |-> c.count]})]
    /\ queue' = [queue EXCEPT ![h] = Tail(@)]
    /\ handled' = [handled EXCEPT ![h] = @ + 1]
    /\ sched_out' = NoSched
    /\ ing_out' = NoIngest
    /\ UNCHANGED <<txs, chanChat, actor, pinned, pending, running>>
    /\ UNCHANGED schedVars
    /\ UNCHANGED ingVars

\* ContextCommand::AddPushups (main.rs:220-235).  r[1] and r[2] are the
\* outcomes of the two sends, r[3] of the edit.
handle_AddPushups(h, r) ==
    /\ running
    /\ actor[h] = "running"
    /\ queue[h] # <<>>
    /\ Head(queue[h]).cmd = "AddPushups"
    /\ LET c == Head(queue[h])
             cd1 == add_user_progress(ctx[h], c.username, c.count)
             edit == update_daily_message(cd1, r[3])
             done == IF is_user_done(cd1, c.username)
                     THEN send_message(UserDoneText, r[1]) ELSE <<>>
             all == IF is_all_users_done(cd1)
                    THEN send_message(AllDoneText, r[2]) ELSE <<>>
         IN /\ ctx' = [ctx EXCEPT ![h] = cd1]
            /\ out' = [h |-> h, dropped |-> NoContext, calls |-> edit \o done \o all,
                       pinned |-> pinned[h], lost |-> <<>>]
            /\ applied' = [applied EXCEPT ![h] = @ (+) SetToBag(
                   {[day |-> ctx[h].current_day, username |-> c.username,
                     count |-> c.count]})]
    /\ queue' = [queue EXCEPT ![h] = Tail(@)]
    /\ handled' = [handled EXCEPT ![h] = @ + 1]
    /\ sched_out' = NoSched
    /\ ing_out' = NoIngest
    /\ UNCHANGED <<txs, chanChat, actor, pinned, pending, running>>
    /\ UNCHANGED schedVars
    /\ UNCHANGED ingVars

\* ------------------------------------------------------------ IngestLoop
\* get_chat_id_from_update (main.rs:240-252): the chat of the message or of
\* the edited message
get_chat_id_from_update(u) == u.chat

\* init_context (main.rs:177-183): a new channel, its Sender registered
\* under chat_id, a fresh ContextData and a handle_commands task
init_context(chat_id) ==
    LET h == NewChan
    IN /\ txs' = [txs EXCEPT ![chat_id] = h]
       /\ chanChat' = [chanChat EXCEPT ![h] = chat_id]
       /\ queue' = [queue EXCEPT ![h] = <<>>]
       /\ ctx' = [ctx EXCEPT ![h] = ContextData_new(chat_id)]
       /\ actor' = [actor EXCEPT ![h] = "running"]

\* a variant without the contains_key test
start_wanted_always(u) ==
    /\ u.message
    /\ u.text = "/start"

\* the `/start` test of main.rs:77-85
start_wanted(u) ==
    /\ txs[u.chat] = NoChan
    /\ u.message
    /\ u.text = "/start"

\* One update of the poll result (main.rs:66-116).  The loop reads the
\* registry twice; between the two reads only the Scheduler can change it,
\* by removing an entry whose channel is closed, and a report for such an
\* entry is lost either way, so the iteration is one step.
\* An update without a chat is skipped; `/start` for a chat without an entry
\* calls init_context and then fails to parse; a numeric message for a chat
\* with an entry spawns a sender task, after unwrapping the sender's name.
is_report(u) ==
    u.message /\ u.text # NoText /\ parse_usize(u.text) # ParseErr

IngestUpdate(u) ==
    /\ running
    /\ ing_pc = "polling"
    /\ is_report(u) => reports < MaxReports /\ BagCardinality(pending) < MaxInFlight
    /\ reports' = IF is_report(u) THEN reports + 1 ELSE reports
    /\ LET chat_id == get_chat_id_from_update(u)
           did(res) == ing_out' = [chat |-> chat_id, res |-> res]
       IN IF chat_id = NoChat
          THEN /\ did("skipped")
               /\ UNCHANGED <<txs, chanChat, queue, ctx, actor, pending, ing_pc>>
          ELSE IF start_wanted(u)
          THEN /\ FreeChans # {}
               /\ init_context(chat_id)
               /\ did("started")
               /\ UNCHANGED <<pending, ing_pc>>
          ELSE IF txs[chat_id] = NoChan \/ ~is_report(u)
          THEN /\ did(IF u.message /\ u.text = "/start" THEN "start_noop" ELSE "dropped")
               /\ UNCHANGED <<txs, chanChat, queue, ctx, actor, pending, ing_pc>>
          ELSE IF u.from = NoUser
          THEN \* message.from.unwrap().username.unwrap() panics the task
               /\ ing_pc' = "panicked"
               /\ did("panicked")
               /\ UNCHANGED <<txs, chanChat, queue, ctx, actor, pending>>
          ELSE /\ pending' = pending (+) SetToBag(
                      {[h |-> txs[chat_id], username |-> u.from,
                        count |-> parse_usize(u.text)]})
               /\ did("spawned")
               /\ UNCHANGED <<txs, chanChat, queue, ctx, actor, ing_pc>>
    /\ out' = NoOut
    /\ sched_out' = NoSched
    /\ UNCHANGED <<handled, applied, pinned, running>>
    /\ UNCHANGED schedVars

\* a variant whose send does not notice that the receiver is closed
TaskSend_open(t) ==
    /\ running
    /\ BagIn(t, pending)
    /\ Len(queue[t.h]) < ChannelCapacity
    /\ queue' = [queue EXCEPT ![t.h] = Append(@, AddPushupsCmd(t.username, t.count))]
    /\ pending' = pending (-) SetToBag({t})
    /\ out' = NoOut
    /\ sched_out' = NoSched
    /\ ing_out' = NoIngest
    /\ UNCHANGED <<txs, chanChat, actor, ctx, handled, applied, pinned, running>>
    /\ UNCHANGED schedVars
    /\ UNCHANGED ingVars

\* A spawned sender task (main.rs:113-115): tx.send(AddPushups).await waits
\* while the queue is full and fails once the receiver is closed.
TaskSend(t) ==
    /\ running
    /\ BagIn(t, pending)
    /\ \/ /\ is_closed(t.h)
          /\ queue' = queue
       \/ /\ ~is_closed(t.h)
          /\ Len(queue[t.h]) < ChannelCapacity
          /\ queue' = [queue EXCEPT ![t.h] = Append(@, AddPushupsCmd(t.username, t.count))]
    /\ pending' = pending (-) SetToBag({t})
    /\ out' = NoOut
    /\ sched_out' = NoSched
    /\ ing_out' = NoIngest
    /\ UNCHANGED <<txs, chanChat, actor, ctx, handled, applied, pinned, running>>
    /\ UNCHANGED schedVars
    /\ UNCHANGED ingVars

\* main (main.rs:30): try_join! returns the JoinError of the panicked task
\* and unwrap() ends the process, and with it every task.
MainExit ==
    /\ running
    /\ ing_pc = "panicked"
    /\ running' = FALSE
    /\ out' = NoOut
    /\ sched_out' = NoSched
    /\ ing_out' = NoIngest
    /\ UNCHANGED <<txs, pending>>
    /\ UNCHANGED chanVars
    /\ UNCHANGED schedVars
    /\ UNCHANGED ingVars

\* ------------------------------------------------------------- Scheduler
\* top of the loop (main.rs:35): the snapshot of the registry
SchedWake ==
    /\ running
    /\ sched_pc = "wake"
    /\ sched_txs' = txs
    /\ sched_todo' = {c \in Chats : txs[c] # NoChan}
    /\ sched_pc' = "iter"
    /\ sched_out' = NoSched
    /\ ing_out' = NoIngest
    /\ out' = NoOut
    /\ UNCHANGED <<txs, sched_cur, pending, running>>
    /\ UNCHANGED chanVars
    /\ UNCHANGED ingVars

\* a variant that leaves the entry of a closed handle in the registry
SchedCheck_keep(c) ==
    /\ running
    /\ sched_pc = "iter"
    /\ c \in sched_todo
    /\ IF is_closed(sched_txs[c])
       THEN /\ sched_todo' = sched_todo \ {c}
            /\ sched_txs' = [sched_txs EXCEPT ![c] = NoChan]
            /\ sched_out' = [chat |-> c, res |-> "removed"]
            /\ UNCHANGED <<txs, sched_pc, sched_cur>>
       ELSE /\ sched_pc' = "send"
            /\ sched_cur' = c
            /\ sched_out' = NoSched
            /\ UNCHANGED <<txs, sched_txs, sched_todo>>
    /\ out' = NoOut
    /\ ing_out' = NoIngest
    /\ UNCHANGED <<pending, running>>
    /\ UNCHANGED chanVars
    /\ UNCHANGED ingVars

\* one iteration of the for loop up to the branch (main.rs:37-40); a
\* HashMap iterates in no particular order
SchedCheck(c) ==
    /\ running
    /\ sched_pc = "iter"
    /\ c \in sched_todo
    /\ IF is_closed(sched_txs[c])
       THEN /\ txs' = [txs EXCEPT ![c] = NoChan]
            /\ sched_todo' = sched_todo \ {c}
            /\ sched_txs' = [sched_txs EXCEPT ![c] = NoChan]
            /\ sched_out' = [chat |-> c, res |-> "removed"]
            /\ UNCHANGED <<sched_pc, sched_cur>>
       ELSE /\ sched_pc' = "send"
            /\ sched_cur' = c
            /\ sched_out' = NoSched
            /\ UNCHANGED <<txs, sched_txs, sched_todo>>
    /\ out' = NoOut
    /\ ing_out' = NoIngest
    /\ UNCHANGED <<pending, running>>
    /\ UNCHANGED chanVars
    /\ UNCHANGED ingVars

\* context_tx.send(SendDailyMessage).await (main.rs:41): waits while the
\* queue is full, fails once the receiver is closed; the result is dropped
SchedSend ==
    /\ running
    /\ sched_pc = "send"
    /\ LET h == sched_txs[sched_cur]
       IN \/ /\ is_closed(h)
             /\ queue' = queue
             /\ sched_out' = [chat |-> sched_cur, res |-> "failed"]
          \/ /\ ~is_closed(h)
             /\ Len(queue[h]) < ChannelCapacity
             /\ queue' = [queue EXCEPT ![h] = Append(@, SendDailyMessageCmd)]
             /\ sched_out' = [chat |-> sched_cur, res |-> "sent"]
    /\ sched_todo' = sched_todo \ {sched_cur}
    /\ sched_txs' = [sched_txs EXCEPT ![sched_cur] = NoChan]
    /\ sched_pc' = "iter"
    /\ sched_cur' = NoChat
    /\ out' = NoOut
    /\ ing_out' = NoIngest
    /\ UNCHANGED <<txs, chanChat, actor, ctx, handled, applied, pinned, pending, running>>
    /\ UNCHANGED ingVars

\* end of the for loop: time::sleep(get_day_duration()) (main.rs:45)
SchedSleep ==
    /\ running
    /\ sched_pc = "iter"
    /\ sched_todo = {}
    /\ sched_pc' = "wake"
    /\ sched_out' = NoSched
    /\ ing_out' = NoIngest
    /\ out' = NoOut
    /\ UNCHANGED <<txs, sched_txs, sched_todo, sched_cur, pending, running>>
    /\ UNCHANGED chanVars
    /\ UNCHANGED ingVars

\* ------------------------------------------------------------------ Next
\* the outcomes of the platform calls a handler may make
Outcomes == [1..4 -> BOOLEAN]
AllOk == [i \in 1..4 |-> TRUE]
\* the outcomes in which only sends fail
SendsFail == {r \in Outcomes : r[3] /\ r[4]}

\* The whole program: both producers and the actors of two chats, with a
\* platform whose calls succeed.
Next ==
    \/ \E h \in Chans : handle_SendDailyMessage(h, AllOk)
    \/ \E h \in Chans : handle_AddPushups(h, AllOk)
    \/ \E u \in Updates : IngestUpdate(u)
    \/ \E t \in BagToSet(pending) : TaskSend(t)
    \/ MainExit
    \/ SchedWake
    \/ \E c \in Chats : SchedCheck(c)
    \/ SchedSend
    \/ SchedSleep

Spec == Init /\ [][Next]_vars

\* The whole program with its scheduling, for the updates of one chat: the
\* runtime keeps running every task that can take a step, so the Scheduler
\* task, the actor of every channel, every spawned sender task and main
\* each take the step they are ready for.  Nothing makes the platform
\* deliver an update.
SchedNext ==
    \/ SchedWake
    \/ \E c \in Chats : SchedCheck(c)
    \/ SchedSend
    \/ SchedSleep

ActorNext(h) ==
    \/ handle_SendDailyMessage(h, AllOk)
    \/ handle_AddPushups(h, AllOk)

FairUpdates == {u \in Updates : u.chat = 1}

NextFair ==
    \/ \E h \in Chans : ActorNext(h)
    \/ \E u \in FairUpdates : IngestUpdate(u)
    \/ \E t \in BagToSet(pending) : TaskSend(t)
    \/ MainExit
    \/ SchedNext

SpecFair ==
    /\ Init
    /\ [][NextFair]_vars
    /\ WF_vars(SchedNext)
    /\ \A h \in Chans : WF_vars(ActorNext(h))
    /\ WF_vars(\E t \in BagToSet(pending) : TaskSend(t))
    /\ WF_vars(MainExit)

\* ------------------------------------------------------------- SpecActor
\* The actors alone, with a platform whose sends may fail, and their
\* producers replaced by the most general one: any command may be sent to a
\* channel at any time (Sender::send, main.rs:41 and main.rs:114).
Commands ==
    {SendDailyMessageCmd} \cup {AddPushupsCmd(u, n) : u \in Users, n \in Counts}

Send(h, cmd) ==
    /\ running
    /\ ~is_closed(h)
    /\ Len(queue[h]) < ChannelCapacity
    /\ cmd.cmd = "AddPushups" => reports < MaxAdds
    /\ reports' = IF cmd.cmd = "AddPushups" THEN reports + 1 ELSE reports
    /\ queue' = [queue EXCEPT ![h] = Append(@, cmd)]
    /\ out' = NoOut
    /\ sched_out' = NoSched
    /\ ing_out' = NoIngest
    /\ UNCHANGED <<txs, chanChat, actor, ctx, handled, applied, pinned, pending,
                   ing_pc, running>>
    /\ UNCHANGED schedVars

\* the state after `/start` in the chats of ActorChats (init_context)
ActorChats == {1, 2}

\* Chat 1 receives every command; chat 2 is the other chat, whose actor
\* applies progress reports of its own in between.
CommandsFor(h) ==
    IF h = 1 THEN Commands ELSE {AddPushupsCmd("bob", 60)}

InitActor ==
    /\ txs = [c \in Chats |-> IF c \in ActorChats THEN c ELSE NoChan]
    /\ chanChat = [h \in Chans |-> IF h \in ActorChats THEN h ELSE NoChat]
    /\ queue = [h \in Chans |-> <<>>]
    /\ actor = [h \in Chans |-> IF h \in ActorChats THEN "running" ELSE "none"]
    /\ ctx = [h \in Chans |-> IF h \in ActorChats THEN ContextData_new(h)
                                                   ELSE NoContext]
    /\ out = NoOut
    /\ handled = [h \in Chans |-> 0]
    /\ applied = [h \in Chans |-> EmptyBag]
    /\ pinned = [h \in Chans |-> {}]
    /\ pending = EmptyBag
    /\ sched_pc = "wake"
    /\ sched_txs = [c \in Chats |-> NoChan]
    /\ sched_todo = {}
    /\ sched_cur = NoChat
    /\ sched_out = NoSched
    /\ ing_out = NoIngest
    /\ ing_pc = "polling"
    /\ reports = 0
    /\ running = TRUE

NextActor ==
    \/ \E h \in Chans, cmd \in Commands : cmd \in CommandsFor(h) /\ Send(h, cmd)
    \/ \E h \in Chans, r \in SendsFail : handle_SendDailyMessage(h, r)
    \/ \E h \in Chans, r \in SendsFail : handle_AddPushups(h, r)

SpecActor == InitActor /\ [][NextActor]_vars

\* ------------------------------------------------------------- SpecOrder
\* One day of two chats whose queues hold the same AddPushups commands in
\* any two orders: the state after `/start` in both chats and the sends of
\* the commands, before any of them is handled.
AddCommands == {AddPushupsCmd(u, n) : u \in Users, n \in Counts}

SeqsUpTo(S, n) == UNION {[1..k -> S] : k \in 0..n}

CountIn(q, x) == Cardinality({i \in 1..Len(q) : q[i] = x})

SameCommands(q1, q2) ==
    /\ Len(q1) = Len(q2)
    /\ \A x \in AddCommands : CountIn(q1, x) = CountIn(q2, x)

InitOrder ==
    /\ txs = [c \in Chats |-> IF c \in ActorChats THEN c ELSE NoChan]
    /\ chanChat = [h \in Chans |-> IF h \in ActorChats THEN h ELSE NoChat]
    /\ \E q1, q2 \in SeqsUpTo(AddCommands, ChannelCapacity) :
          /\ SameCommands(q1, q2)
          /\ queue = [h \in Chans |-> IF h = 1 THEN q1
                                      ELSE IF h = 2 THEN q2 ELSE <<>>]
    /\ actor = [h \in Chans |-> IF h \in ActorChats THEN "running" ELSE "none"]
    /\ ctx = [h \in Chans |-> IF h \in ActorChats THEN ContextData_new(h)
                                                   ELSE NoContext]
    /\ out = NoOut
    /\ handled = [h \in Chans |-> 0]
    /\ applied = [h \in Chans |-> EmptyBag]
    /\ pinned = [h \in Chans |-> {}]
    /\ pending = EmptyBag
    /\ sched_pc = "wake"
    /\ sched_txs = [c \in Chats |-> NoChan]
    /\ sched_todo = {}
    /\ sched_cur = NoChat
    /\ sched_out = NoSched
    /\ ing_out = NoIngest
    /\ ing_pc = "polling"
    /\ reports = 0
    /\ running = TRUE

NextOrder ==
    \E h \in Chans, r \in SendsFail : handle_AddPushups(h, r)

SpecOrder == InitOrder /\ [][NextOrder]_vars

\* ------------------------------------------------------------- SpecFlaky
\* The actor of one chat after `/start`, with a platform any of whose calls
\* may fail, and any command sent to it at any time.
InitFlaky ==
    /\ txs = [c \in Chats |-> IF c = 1 THEN 1 ELSE NoChan]
    /\ chanChat = [h \in Chans |-> IF h = 1 THEN 1 ELSE NoChat]
    /\ queue = [h \in Chans |-> <<>>]
    /\ actor = [h \in Chans |-> IF h = 1 THEN "running" ELSE "none"]
    /\ ctx = [h \in Chans |-> IF h = 1 THEN ContextData_new(1) ELSE NoContext]
    /\ out = NoOut
    /\ handled = [h \in Chans |-> 0]
    /\ applied = [h \in Chans |-> EmptyBag]
    /\ pinned = [h \in Chans |-> {}]
    /\ pending = EmptyBag
    /\ sched_pc = "wake"
    /\ sched_txs = [c \in Chats |-> NoChan]
    /\ sched_todo = {}
    /\ sched_cur = NoChat
    /\ sched_out = NoSched
    /\ ing_out = NoIngest
    /\ ing_pc = "polling"
    /\ reports = 0
    /\ running = TRUE

FlakyCommands ==
    {SendDailyMessageCmd, AddPushupsCmd("alice", 60), AddPushupsCmd("bob", 50)}

NextFlaky ==
    \/ \E cmd \in FlakyCommands : Send(1, cmd)
    \/ \E r \in Outcomes : handle_SendDailyMessage(1, r)
    \/ \E r \in Outcomes : handle_AddPushups(1, r)

SpecFlaky == InitFlaky /\ [][NextFlaky]_vars

\* ================================================================ claims
Running(h) == actor[h] = "running"

\* the send of a text of the given kind is among the calls
Sends(calls, kind) ==
    \E i \in 1..Len(calls) : calls[i].op = "send" /\ calls[i].arg.kind = kind

\* the step handles a command of the actor on channel h
Handles(h) == out'.h = h

\* the step handles a SendDailyMessage that advances the day of channel h
Advances(h) ==
    /\ Handles(h)
    /\ Running(h) /\ actor'[h] = "running"
    /\ ctx'[h].current_day = ctx[h].current_day + 1

\* C1: in every state of a chat's ContextData, the one the actor drops at
\* the terminal AdvanceDay included, the number of day ledgers is
\* current_day + 1.
C1_LedgerPerDay ==
    /\ \A h \in Chans : Len(ctx[h].progress) = ctx[h].current_day + 1
    /\ Len(out.dropped.progress) = out.dropped.current_day + 1

\* C1 witness: an actor that applied progress and advanced through every day
\* has handled the terminal AdvanceDay.
C1_Witness ==
    /\ out.h # NoChan
    /\ out.dropped.current_day = 3
    /\ out.dropped.users # <<>>

RECURSIVE SumCounts(_, _)
SumCounts(S, B) ==
    IF S = {} THEN 0
    ELSE LET t == CHOOSE x \in S : TRUE
         IN t.count * CopiesIn(t, B) + SumCounts(S \ {t}, B)

\* the sum of the counts of the AddPushups commands applied for user u
\* while current_day was d
Submitted(B, d, u) ==
    SumCounts({t \in BagToSet(B) : t.day = d /\ t.username = u}, B)

\* C2: for every chat, user u and day d the recorded total progress[d][u]
\* is the sum of the counts of the AddPushups(u, count) commands applied
\* while current_day = d, whatever the actor of the other chat does in
\* between.
C2_TotalsAreSums ==
    \A h \in Chans : \A d \in 0..ctx[h].current_day : \A u \in Users :
        Get(Ledger(ctx[h], d), u) = Submitted(applied[h], d, u)

\* C2 witness: one user of chat 1 has two reports added up on a day after
\* the first, and the actor of chat 2 has applied a report of its own.
C2_Witness ==
    /\ Running(1) /\ Running(2)
    /\ \E d \in 1..ctx[1].current_day : Get(Ledger(ctx[1], d), "alice") = 110
    /\ ctx[2].users # <<>>

CycleCalls(calls) ==
    {i \in 1..Len(calls) : calls[i].op = "send" /\ calls[i].arg.kind = "cycle"}

C4_TerminalAdvance ==
    [][\A h \in Chans :
         /\ ( /\ Running(h)
              /\ Handles(h)
              /\ Head(queue[h]).cmd = "SendDailyMessage"
              /\ ctx[h].current_day >= ctx[h].duration )
            => /\ out'.dropped = ctx[h]
               /\ Sends(out'.calls, "final")
               /\ ~Sends(out'.calls, "daily")
               /\ ~Sends(out'.calls, "cycle")
               /\ actor'[h] = "none"
         /\ ~Running(h) => ~Handles(h)]_vars

\* C4 witness: an actor has handled the terminal AdvanceDay on day 3.
C4_Witness ==
    /\ out.h # NoChan
    /\ out.dropped.current_day = out.dropped.duration
    /\ Sends(out.calls, "final")
    /\ actor[out.h] = "none"

\* the step creates the actor of channel h
Spawns(h) == actor[h] = "none" /\ actor'[h] = "running"

NumDaily(q) == Cardinality({i \in 1..Len(q) : q[i].cmd = "SendDailyMessage"})

\* C5 as stated: the step that starts an actor enqueues an initial
\* AdvanceDay, so that an actor has sent a daily status message before it
\* applies any AddProgress.
C5_Original ==
    [][\A h \in Chans :
         /\ Spawns(h) => queue'[h] = <<SendDailyMessageCmd>>
         /\ (Running(h) /\ Handles(h) /\ Head(queue[h]).cmd = "AddPushups") =>
              ctx[h].current_day >= 1]_vars

\* C6 as stated: a numeric message for a chat with a registry entry that
\* spawns no sender task (its sender is absent) changes no queue and no chat
\* state and leaves the IngestLoop task and the process running.
C6_Claim ==
    [][( /\ reports' = reports + 1
         /\ pending' = pending
         /\ ing_out'.chat \in Chats
         /\ txs[ing_out'.chat] # NoChan )
       => ( /\ ing_pc' = "polling"
            /\ UNCHANGED <<queue, ctx, actor>> )]_vars

\* the step ends the Scheduler's iteration for the handle of chat c
Passes(c) == c \in sched_todo /\ c \notin sched_todo'

\* C7 as stated: for every handle of the snapshot, a closed handle has its
\* entry removed and nothing enqueued; any other handle gets exactly one
\* AdvanceDay.
C7_Original ==
    [][\A c \in Chats :
         Passes(c) =>
           LET h == sched_txs[c]
           IN IF sched_pc = "iter"
              THEN is_closed(h) /\ txs'[c] = NoChan /\ queue' = queue
              ELSE queue'[h] = Append(queue[h], SendDailyMessageCmd)]_vars

\* C7 (amended): for every handle of the snapshot, a handle found closed has
\* its entry removed and nothing enqueued; for any other handle one send is
\* attempted, which enqueues exactly one AdvanceDay unless the receiver was
\* closed in the meantime, and then nothing is enqueued and the entry stays.
\* An AdvanceDay is enqueued only by the step that ends the iteration for
\* its chat, and a chat is iterated again only after the next wake.
C7_WakeHandles ==
    [][/\ \A c \in Chats :
            Passes(c) =>
              LET h == sched_txs[c]
              IN IF sched_pc = "iter"
                 THEN is_closed(h) /\ txs'[c] = NoChan /\ queue' = queue
                 ELSE \/ /\ ~is_closed(h)
                         /\ queue' = [queue EXCEPT ![h] =
                                         Append(@, SendDailyMessageCmd)]
                         /\ txs' = txs
                      \/ /\ is_closed(h)
                         /\ queue' = queue
                         /\ txs' = txs
       /\ \A h \in Chans :
            NumDaily(queue'[h]) > NumDaily(queue[h]) =>
              /\ NumDaily(queue'[h]) = NumDaily(queue[h]) + 1
              /\ sched_pc = "send"
              /\ sched_txs[sched_cur] = h
              /\ Passes(sched_cur)
       /\ ~(sched_todo' \subseteq sched_todo) => sched_pc = "wake"]_vars

\* C7 witness: the receiver of a handle that was open when the Scheduler
\* examined it closed before the send, which failed; the entry is still
\* in the registry.
C7_Witness ==
    /\ sched_out.res = "failed"
    /\ txs[sched_out.chat] # NoChan
    /\ is_closed(txs[sched_out.chat])

\* C8 as stated: the Scheduler never waits for a full queue.
C8_Claim ==
    sched_pc = "send" =>
        \/ is_closed(sched_txs[sched_cur])
        \/ Len(queue[sched_txs[sched_cur]]) < ChannelCapacity

\* C9: a chat never has two live actors, and a registry entry is never
\* replaced by another handle: `/start` for a chat with an entry changes
\* neither the registry nor any channel.
C9_OneActorPerChat ==
    /\ [](\A c \in Chats :
            Cardinality({h \in Chans : Running(h) /\ chanChat[h] = c}) <= 1)
    /\ [][\A c \in Chats :
            txs[c] # NoChan =>
              /\ txs'[c] \in {txs[c], NoChan}
              /\ (ing_out'.chat = c /\ ing_out'.res = "start_noop") =>
                   UNCHANGED <<txs, chanChat, queue, actor, ctx, pending>>]_vars

\* C9 witness: `/start` has arrived for a chat whose actor is running.
C9_Witness ==
    /\ ing_out.res = "start_noop"
    /\ txs[ing_out.chat] # NoChan
    /\ Running(txs[ing_out.chat])

\* C10 as stated: `/start` for a chat that has no entry, or whose entry
\* belongs to an actor that has ended, registers a running actor with
\* fresh state.
C10_Claim ==
    [][\A c \in Chats :
         ( /\ ing_out'.chat = c
           /\ ing_out'.res \in {"started", "start_noop"}
           /\ (txs[c] = NoChan \/ is_closed(txs[c])) )
         => /\ txs'[c] # NoChan
            /\ actor'[txs'[c]] = "running"
            /\ ctx'[txs'[c]] = ContextData_new(c)
            /\ queue'[txs'[c]] = <<>>]_vars

\* the step handles the command at the head of the queue of channel h
HandlesHead(h, cmd) ==
    /\ Running(h)
    /\ Handles(h)
    /\ Head(queue[h]).cmd = cmd

\* the fields of a ContextData other than the id of the status message
Core(cd) ==
    [ current_day |-> cd.current_day, repeats |-> cd.repeats,
      progress |-> cd.progress, users |-> cd.users ]

\* some call of the given kind among the calls failed
Failed(calls, op) == \E i \in 1..Len(calls) : calls[i].op = op /\ ~calls[i].ok

\* C11: whatever the outcomes of the send, edit, pin and unpin calls of a
\* command, the actor goes on as when every call succeeds: current_day,
\* quota, ledgers and roster after the command are those of the addition
\* (AddProgress) or of the advance of the day (AdvanceDay), and the terminal
\* AdvanceDay ends the actor with its state as it was.
C11_FailuresKeepState ==
    [][\A h \in Chans :
         /\ HandlesHead(h, "AddPushups") =>
              LET c == Head(queue[h])
              IN /\ actor'[h] = "running"
                 /\ Core(ctx'[h]) =
                      Core(add_user_progress(ctx[h], c.username, c.count))
         /\ HandlesHead(h, "SendDailyMessage") =>
              IF ctx[h].current_day >= ctx[h].duration
              THEN actor'[h] = "none" /\ Core(out'.dropped) = Core(ctx[h])
              ELSE /\ actor'[h] = "running"
                   /\ Core(ctx'[h]) = Core(init_next_day(ctx[h]).data)]_vars

\* C11 witness: the edit of a progress report failed and the report is in
\* the ledger; an AdvanceDay whose sends and unpin failed advanced the day.
C11_Witness ==
    \/ /\ out.h # NoChan
       /\ Running(out.h)
       /\ Failed(out.calls, "edit")
       /\ Get(Ledger(ctx[out.h], ctx[out.h].current_day), "alice") >= 60
    \/ /\ out.h # NoChan
       /\ Running(out.h)
       /\ Failed(out.calls, "unpin")
       /\ Failed(out.calls, "send")
       /\ ctx[out.h].current_day = 2

NumSends(calls, kind) ==
    Cardinality({i \in 1..Len(calls) :
                    calls[i].op = "send" /\ calls[i].arg.kind = kind})

\* C12: handling AddProgress(u, count) sends the per-user celebratory
\* message once if u's total of the day after the addition is >= quota, and
\* not at all otherwise.
C12_UserDoneIff ==
    [][\A h \in Chans :
         HandlesHead(h, "AddPushups") =>
           LET c == Head(queue[h])
               total == Get(Ledger(ctx[h], ctx[h].current_day), c.username)
                          + c.count
           IN NumSends(out'.calls, "user_done") =
                IF total >= ctx[h].repeats THEN 1 ELSE 0]_vars

\* C12 witness: with quota 100 a user has reported 60 and then 50, and the
\* celebratory message was sent after the second report.
C12_Witness ==
    \E h \in Chans :
        /\ out.h = h
        /\ Running(h)
        /\ ctx[h].repeats = 100
        /\ applied[h] = SetToBag({[day |-> ctx[h].current_day, username |-> "alice", count |-> 60],
                                  [day |-> ctx[h].current_day, username |-> "alice", count |-> 50]})
        /\ handled[h] = 2 + ctx[h].current_day
        /\ NumSends(out.calls, "user_done") = 1

\* every roster member's total of the current day is >= quota
AllAtQuota(cd) ==
    \A i \in 1..Len(cd.users) :
        Get(cd.progress[cd.current_day + 1], cd.users[i]) >= cd.repeats

\* C13 as stated: the day-complete message is sent by the submission by
\* which the last roster member reaches quota, and by no other.
C13_Original ==
    [][\A h \in Chans :
         HandlesHead(h, "AddPushups") =>
           LET u == Head(queue[h]).username
               before == Get(Ledger(ctx[h], ctx[h].current_day), u)
           IN NumSends(out'.calls, "all_done") =
                IF AllAtQuota(ctx'[h]) /\ before < ctx[h].repeats
                THEN 1 ELSE 0]_vars

\* C13 (amended): the day-complete message is never sent while some roster
\* member's total of the day is below quota, and it is sent once by every
\* AddProgress after which every roster member's total is >= quota: by the
\* submission by which the last roster member reaches quota and by every
\* later submission of that day.
C13_AllDoneIff ==
    [][\A h \in Chans :
         HandlesHead(h, "AddPushups") =>
           NumSends(out'.calls, "all_done") =
             IF AllAtQuota(ctx'[h]) THEN 1 ELSE 0]_vars

\* C13 witness: the day-complete message was sent again by a report of a
\* user who was at quota before it; or a user reached quota while another
\* roster member was below it, and no day-complete message was sent.
C13_Witness ==
    \E h \in Chans :
        /\ out.h = h
        /\ Running(h)
        /\ ctx[h].repeats = 100
        /\ \/ /\ NumSends(out.calls, "all_done") = 1
              /\ Get(Ledger(ctx[h], ctx[h].current_day), "alice") = 160
           \/ /\ NumSends(out.calls, "all_done") = 0
              /\ NumSends(out.calls, "user_done") = 1
              /\ Len(ctx[h].users) = 2

\* C14: the final summary sent at the terminal AdvanceDay reports as grand
\* total the sum of the counts of all AddProgress commands the actor applied,
\* and one value per user who reported progress, the sum of the counts of
\* that user's commands.
C14_FinalTotals ==
    [][\A h \in Chans :
         (Running(h) /\ Handles(h) /\ actor'[h] = "none") =>
           /\ NumSends(out'.calls, "final") = 1
           /\ \A i \in 1..Len(out'.calls) :
                out'.calls[i].op = "send" =>
                  LET m == out'.calls[i].arg
                      T == BagToSet(applied[h])
                  IN /\ m.kind = "final"
                     /\ m.total = SumCounts(T, applied[h])
                     /\ DOMAIN m.users = {t.username : t \in T}
                     /\ \A u \in DOMAIN m.users :
                          m.users[u] =
                            SumCounts({t \in T : t.username = u}, applied[h])]_vars

\* C14 witness: a final summary with two users, one of whom reported on two
\* different days.
C14_Witness ==
    /\ out.h # NoChan
    /\ \E i \in 1..Len(out.calls) :
         /\ out.calls[i].op = "send"
         /\ out.calls[i].arg.kind = "final"
         /\ DOMAIN out.calls[i].arg.users = {"alice", "bob"}
         /\ out.calls[i].arg.users["alice"] = 110
    /\ \E d1, d2 \in 0..out.dropped.current_day :
         /\ d1 # d2
         /\ "alice" \in DOMAIN Ledger(out.dropped, d1)
         /\ "alice" \in DOMAIN Ledger(out.dropped, d2)

\* the registry entry of chat c belongs to an actor that has ended
Stale(c) == txs[c] # NoChan /\ is_closed(txs[c])

\* C15 as stated: the registry entry of an actor that has ended is
\* eventually removed, and no step removes the entry of a live actor.
C15_Claim ==
    /\ \A c \in Chats : Stale(c) ~> (txs[c] = NoChan)
    /\ [][\A c \in Chats :
            (txs[c] # NoChan /\ txs'[c] = NoChan) => is_closed(txs[c])]_vars

\* the pinned messages after each of the calls of a step
PinnedDuring(P, calls) ==
    {ApplyPins(P, SubSeq(calls, 1, k)) : k \in 0..Len(calls)}

\* C16: an AdvanceDay first unpins the status message it has the id of,
\* before any send; with unpins that succeed the chat has at most one
\* pinned message at any time, the times between the calls of a command
\* included, and none after the terminal AdvanceDay, whether the sends
\* succeed or fail.
C16_OnePinned ==
    /\ [](\A h \in Chans :
            /\ Cardinality(pinned[h]) <= 1
            /\ pinned[h] \subseteq {ctx[h].daily_message_id} \ {NoMessage})
    /\ []((out.h # NoChan /\ ~Running(out.h)) => out.pinned = {})
    /\ [][\A h \in Chans :
            HandlesHead(h, "SendDailyMessage") =>
              /\ ctx[h].daily_message_id # NoMessage =>
                   /\ out'.calls[1].op = "unpin"
                   /\ out'.calls[1].arg = ctx[h].daily_message_id
              /\ \A P \in PinnedDuring(pinned[h], out'.calls) :
                   Cardinality(P) <= 1]_vars

\* C16 witness: the final summary failed to send at the terminal AdvanceDay
\* of a chat whose status message of day 3 was pinned, and nothing is
\* pinned; a daily status failed to send and nothing is pinned.
C16_Witness ==
    \/ /\ out.h # NoChan
       /\ ~Running(out.h)
       /\ Failed(out.calls, "send")
       /\ out.dropped.daily_message_id = 3
       /\ out.pinned = {}
    \/ /\ out.h # NoChan
       /\ Running(out.h)
       /\ NumSends(out.calls, "daily") = 1
       /\ Failed(out.calls, "send")
       /\ ctx[out.h].daily_message_id = 1
       /\ ctx[out.h].current_day = 2
       /\ pinned[out.h] = {}

Roster(cd) == {cd.users[i] : i \in 1..Len(cd.users)}

\* C17: two actors that have applied the same multiset of AddProgress
\* commands within one day, in whatever orders, have the same per-user
\* totals in that day's ledger and the same set of roster members.
C17_OrderIndependent ==
    \A g, h \in Chans :
        (Running(g) /\ Running(h) /\ applied[g] = applied[h]
           /\ ctx[g].current_day = ctx[h].current_day) =>
          /\ Ledger(ctx[g], ctx[g].current_day) = Ledger(ctx[h], ctx[h].current_day)
          /\ Roster(ctx[g]) = Roster(ctx[h])

\* C17 witness: two actors have applied the same reports of two users in
\* different orders.
C17_Witness ==
    /\ Running(1) /\ Running(2)
    /\ applied[1] = applied[2]
    /\ handled[1] >= 2
    /\ ctx[1].users = <<"alice", "bob">>
    /\ ctx[2].users = <<"bob", "alice">>

\* C18: every key of every day ledger is a member of the roster, and the
\* roster holds no username twice; this holds of the ContextData an actor
\* drops at its end as well.
RosterOk(cd) ==
    /\ \A d \in 0..(Len(cd.progress) - 1) : DOMAIN Ledger(cd, d) \subseteq Roster(cd)
    /\ \A i, j \in 1..Len(cd.users) : cd.users[i] = cd.users[j] => i = j

C18_RosterInvariant ==
    /\ \A h \in Chans : RosterOk(ctx[h])
    /\ RosterOk(out.dropped)

\* C18 witness: a roster of two users, one of whom reported on two days.
C18_Witness ==
    \E h \in Chans :
        /\ Running(h)
        /\ ctx[h].current_day = 1
        /\ Len(ctx[h].users) = 2
        /\ \E u \in Users : u \in DOMAIN Ledger(ctx[h], 0) /\ u \in DOMAIN Ledger(ctx[h], 1)

\* C19: an actor handles the command at the head of its queue, one command
\* in a step: the queue loses its head, an AddProgress is applied on the
\* current day and leaves the day alone, an AdvanceDay advances the day or
\* ends the actor and applies no progress; producers append at the end; and
\* the state of a chat changes only in a step that handles a command.
C19_Fifo ==
    [][\A h \in Chans :
         /\ Handles(h) =>
              /\ Running(h)
              /\ queue[h] # <<>>
              /\ actor'[h] = "running" =>
                   /\ queue'[h] = Tail(queue[h])
                   /\ handled'[h] = handled[h] + 1
              /\ LET c == Head(queue[h])
                 IN IF c.cmd = "AddPushups"
                    THEN /\ actor'[h] = "running"
                         /\ ctx'[h].current_day = ctx[h].current_day
                         /\ applied'[h] = applied[h] (+) SetToBag(
                              {[day |-> ctx[h].current_day,
                                username |-> c.username, count |-> c.count]})
                    ELSE actor'[h] = "running" =>
                           /\ ctx'[h].current_day = ctx[h].current_day + 1
                           /\ applied'[h] = applied[h]
         /\ (~Handles(h) /\ Running(h)) =>
              /\ ctx'[h] = ctx[h]
              /\ \/ queue'[h] = queue[h]
                 \/ /\ Len(queue'[h]) = Len(queue[h]) + 1
                    /\ SubSeq(queue'[h], 1, Len(queue[h])) = queue[h]]_vars

\* C19 witness: an AddProgress has been applied that was enqueued before an
\* AdvanceDay still waiting in the queue.
C19_Witness ==
    \E h \in Chans :
        /\ out.h = h
        /\ Running(h)
        /\ ctx[h].users # <<>>
        /\ ctx[h].current_day = 0
        /\ queue[h] = <<SendDailyMessageCmd>>

\* C20 as stated: under fairness of the Scheduler and of the actors, every
\* actor that was spawned eventually handles a terminal AdvanceDay, sends
\* the final summary and ends.
C20_Claim ==
    \A h \in Chans :
        Running(h) ~> (out.h = h /\ Sends(out.calls, "final") /\ ~Running(h))

\* the daily status texts among the calls: those sent and those of edits
DailyTexts(calls) ==
    {calls[i].arg : i \in {j \in 1..Len(calls) :
                              calls[j].op = "send" /\ calls[j].arg.kind = "daily"}}
      \cup {calls[i].arg.text : i \in {j \in 1..Len(calls) : calls[j].op = "edit"}}

\* C21 as stated: the day shown by every daily status text, sent or
\* produced by an edit, is current_day + 1, next to the duration and the
\* quota.
C21_Original ==
    [][\A h \in Chans :
         (Running(h) /\ Handles(h) /\ actor'[h] = "running") =>
           \A m \in DailyTexts(out'.calls) :
             /\ m.day = ctx'[h].current_day + 1
             /\ m.duration = ctx'[h].duration
             /\ m.repeats = ctx'[h].repeats]_vars

\* C21 (amended): the day shown by every daily status text, sent or
\* produced by an edit, is current_day itself, which is at least 1 and at
\* most the duration whenever such a text is produced; the same text shows
\* the duration and the current quota.
C21_DayShown ==
    [][\A h \in Chans :
         (Running(h) /\ Handles(h) /\ actor'[h] = "running") =>
           \A m \in DailyTexts(out'.calls) :
             /\ m.day = ctx'[h].current_day
             /\ m.day >= 1
             /\ m.day <= ctx'[h].duration
             /\ m.duration = ctx'[h].duration
             /\ m.repeats = ctx'[h].repeats]_vars

\* C21 witness: the first AdvanceDay has sent a status text showing day 1,
\* and an edit after a report on day 3 has produced one showing day 3.
C21_Witness ==
    \/ /\ out.h # NoChan
       /\ \E i \in 1..Len(out.calls) :
            /\ out.calls[i].op = "send"
            /\ out.calls[i].arg.kind = "daily"
            /\ out.calls[i].arg.day = 1
       /\ ctx[out.h].current_day = 1
    \/ /\ out.h # NoChan
       /\ \E i \in 1..Len(out.calls) :
            /\ out.calls[i].op = "edit"
            /\ out.calls[i].arg.text.day = 3
       /\ ctx[out.h].current_day = 3

\* C22: current_day <= duration in every state; a step that handles an
\* AdvanceDay below the duration adds 1 to current_day, and no other step
\* changes it: not an AddProgress, and not an AdvanceDay at the duration.
C22_DayBounded ==
    /\ [](\A h \in Chans : ctx[h].current_day <= ctx[h].duration)
    /\ [](out.dropped.current_day <= out.dropped.duration)
    /\ [][\A h \in Chans :
            Running(h) =>
              IF HandlesHead(h, "SendDailyMessage")
                 /\ ctx[h].current_day < ctx[h].duration
              THEN /\ actor'[h] = "running"
                   /\ ctx'[h].current_day = ctx[h].current_day + 1
              ELSE IF actor'[h] = "running"
              THEN ctx'[h].current_day = ctx[h].current_day
              ELSE out'.dropped.current_day = ctx[h].current_day]_vars

\* C22 witness: an AddProgress was handled at current_day = duration.
C22_Witness ==
    \E h \in Chans :
        /\ out.h = h
        /\ Running(h)
        /\ ctx[h].current_day = ctx[h].duration
        /\ \E t \in BagToSet(applied[h]) : t.day = ctx[h].duration

\* the number of AdvanceDay commands the actor of channel h has handled
Advanced(h) == handled[h] - BagCardinality(applied[h])

\* C23: an actor ends on exactly the (duration + 1)-th AdvanceDay it
\* handles; the AdvanceDays before it advance the day; an AddProgress
\* handled at current_day = duration is recorded; the state the actor ends
\* with holds duration + 1 ledgers, and the final summary counts every
\* applied report, those of day `duration` included.
C23_EndsAtDurationPlusOne ==
    [][\A h \in Chans :
         /\ HandlesHead(h, "SendDailyMessage") =>
              IF Advanced(h) = ctx[h].duration
              THEN /\ actor'[h] = "none"
                   /\ Len(out'.dropped.progress) = ctx[h].duration + 1
                   /\ \A i \in 1..Len(out'.calls) :
                        out'.calls[i].op = "send" =>
                          out'.calls[i].arg.total =
                            SumCounts(BagToSet(applied[h]), applied[h])
              ELSE /\ Advanced(h) < ctx[h].duration
                   /\ actor'[h] = "running"
                   /\ ctx'[h].current_day = Advanced(h) + 1
         /\ (HandlesHead(h, "AddPushups")
               /\ ctx[h].current_day = ctx[h].duration) =>
              LET c == Head(queue[h])
              IN Get(Ledger(ctx'[h], ctx[h].duration), c.username) =
                   Get(Ledger(ctx[h], ctx[h].duration), c.username) + c.count]_vars

\* C23 witness: an actor has ended on its fourth AdvanceDay, with four
\* ledgers and a report of day 3 counted in the final summary.
C23_Witness ==
    /\ out.h # NoChan
    /\ ~Running(out.h)
    /\ Len(out.dropped.progress) = 4
    /\ Ledger(out.dropped, 3) # EmptyMap
    /\ \E i \in 1..Len(out.calls) :
         /\ out.calls[i].op = "send"
         /\ out.calls[i].arg.kind = "final"
         /\ out.calls[i].arg.total >= 50

\* the outcome of the daily status send among the calls
DailySent(calls) ==
    \E i \in 1..Len(calls) :
        calls[i].op = "send" /\ calls[i].arg.kind = "daily" /\ calls[i].ok

\* C24: the id of the status message changes only when the daily status
\* send of a non-terminal AdvanceDay succeeds, and is then the id of the
\* message sent; an AddProgress, a failed daily status send and the
\* terminal AdvanceDay leave it as it is, whatever the outcomes of the
\* unpin, pin and edit calls, and every edit targets the message it names.
C24_MessageIdFrame ==
    [][\A h \in Chans :
         Running(h) =>
           /\ IF actor'[h] # "running"
              THEN out'.dropped.daily_message_id = ctx[h].daily_message_id
              ELSE IF HandlesHead(h, "SendDailyMessage") /\ DailySent(out'.calls)
              THEN /\ ctx'[h].daily_message_id = MessageId(ctx'[h])
                   /\ ctx'[h].daily_message_id # ctx[h].daily_message_id
              ELSE ctx'[h].daily_message_id = ctx[h].daily_message_id
           /\ Handles(h) =>
                \A i \in 1..Len(out'.calls) :
                  out'.calls[i].op = "edit" =>
                    /\ ctx[h].daily_message_id # NoMessage
                    /\ out'.calls[i].arg.msg = ctx[h].daily_message_id]_vars

\* C24 witness: after the daily status send of day 2 failed, a report was
\* handled whose edit targets the message of day 1.
C24_Witness ==
    \E h \in Chans :
        /\ out.h = h
        /\ Running(h)
        /\ ctx[h].current_day = 2
        /\ ctx[h].daily_message_id = 1
        /\ \E i \in 1..Len(out.calls) :
             out.calls[i].op = "edit" /\ out.calls[i].arg.msg = 1

\* the step completes a sender task whose channel is closed
TaskFails ==
    \E t \in BagToSet(pending) :
        /\ is_closed(t.h)
        /\ pending' = pending (-) SetToBag({t})

\* C25: the commands buffered behind the terminal AdvanceDay are dropped
\* with the receiver and the final summary counts only the reports that
\* were applied; a channel whose actor has ended holds no command and no
\* state, so that a command sent to it is never applied; a send that fails
\* on such a channel changes no queue and no state and leaves its producer
\* running: the IngestLoop keeps polling, the Scheduler goes on with its
\* iteration.
C25_DeadLetters ==
    /\ [](\A h \in Chans :
            ~Running(h) =>
              /\ queue[h] = <<>>
              /\ ctx[h] = NoContext
              /\ applied[h] = EmptyBag)
    /\ [][\A h \in Chans :
            (Running(h) /\ actor'[h] = "none") =>
              /\ out'.lost = Tail(queue[h])
              /\ out'.dropped = ctx[h]
              /\ \A i \in 1..Len(out'.calls) :
                   out'.calls[i].op = "send" =>
                     out'.calls[i].arg.total =
                       SumCounts(BagToSet(applied[h]), applied[h])]_vars
    /\ [][TaskFails =>
            /\ UNCHANGED <<queue, ctx, applied, ing_pc, sched_pc, running>>]_vars
    /\ [][sched_out'.res = "failed" =>
            /\ UNCHANGED <<queue, ctx, applied, ing_pc, running>>
            /\ sched_pc' = "iter"]_vars

\* C25 witness: an actor has ended with a progress report still buffered
\* behind its terminal AdvanceDay, and the final summary does not count it.
C25_Witness ==
    /\ out.h # NoChan
    /\ ~Running(out.h)
    /\ out.lost # <<>>
    /\ Head(out.lost).cmd = "AddPushups"
    /\ \E i \in 1..Len(out.calls) :
         /\ out.calls[i].op = "send"
         /\ out.calls[i].arg.kind = "final"
         /\ out.calls[i].arg.total = 0

====
